---- MODULE Spec2Model ----
(***************************************************************************)
(* Pharmacy backend of src/app.py: the four tables (drugs, doctors,        *)
(* prescriptions, prescription_details), the request handlers that change  *)
(* them, and the retry wrapper execute_with_retry every handler runs its   *)
(* unit of work through.                                                   *)
(*                                                                         *)
(* A table is the set of its rows.  A unit of work (the inner function of  *)
(* a handler) is an operator from the database to the database after its   *)
(* commit plus what it returned or raised.  Prices are integers (the Float *)
(* column is modelled by whole currency units).                            *)
(***************************************************************************)
EXTENDS Integers, Sequences, FiniteSets, TLC

\* ------------------------------------------------------------------ bounds
MaxStock == 2          \* stock values a client supplies: -1 .. MaxStock
MaxDetails == 2        \* detail rows ever inserted (caps the id counter)
MaxRequests == 8       \* requests served one after another in a run
MaxFaultyRequests == 6 \* requests of a run in which the storage may fail

DrugNames == {"d1"}
DoctorIds == {"x1"}
DoctorNames == {"n1"}
NewDoctorNames == {"n2"}
PrescriptionIds == {"p1", "p2"}
Prices == {1, 2}
Stocks == (0 - 1) .. MaxStock
Quantities == (0 - 1) .. (MaxStock + 1)

\* ------------------------------------------------------------------ state
VARIABLES
    drugs,                  \* table drugs: rows [drug_name, price, stock]
    doctors,                \* table doctors: rows [doctor_id, doctor_name]
    prescriptions,          \* table prescriptions: rows [prescription_id, doctor_id, total_fee]
    prescription_details,   \* table prescription_details: rows [id, prescription_id, drug_name, quantity, price]
    next_detail_id,         \* autoincrement counter of prescription_details.id
    resp,                   \* the response of the last request handled
    sess,                   \* per concurrent request: where it is in add_prescription_detail
    served                  \* the number of requests served one after another so far

vars == <<drugs, doctors, prescriptions, prescription_details, next_detail_id, resp, sess, served>>

\* The database as one value, as a unit of work sees it.
DB == [drugs |-> drugs, doctors |-> doctors, prescriptions |-> prescriptions,
       details |-> prescription_details, next_id |-> next_detail_id]

Drug(name, price, stock) == [drug_name |-> name, price |-> price, stock |-> stock]

Doctor(id, name) == [doctor_id |-> id, doctor_name |-> name]

\* total_fee has the column default 0.
Prescription(id, doctor_id) == [prescription_id |-> id, doctor_id |-> doctor_id, total_fee |-> 0]

PrescriptionDetail(id, prescription_id, drug_name, quantity, price) ==
    [id |-> id, prescription_id |-> prescription_id, drug_name |-> drug_name,
     quantity |-> quantity, price |-> price]

\* Model.query.filter_by(...).all() / .first() on each table.
DrugRows(db, name) == {r \in db.drugs : r.drug_name = name}
DoctorRows(db, id) == {r \in db.doctors : r.doctor_id = id}
PrescriptionRows(db, id) == {r \in db.prescriptions : r.prescription_id = id}
PrescriptionsOfDoctor(db, id) == {r \in db.prescriptions : r.doctor_id = id}
DetailsOfPrescription(db, id) == {r \in db.details : r.prescription_id = id}
DetailsOfDrug(db, name) == {r \in db.details : r.drug_name = name}
First(rows) == CHOOSE r \in rows : TRUE

\* What a unit of work hands back: the database after it, whether it reached
\* db.session.commit(), the exception it raised ("none" when it returned) and
\* the JSON body it returned.
Returned(db, commits, status, kind, num) ==
    [db |-> db, commits |-> commits, exc |-> "none", status |-> status, kind |-> kind,
     num |-> num, rows |-> {}]

Raised(db, exc) ==
    [db |-> db, commits |-> TRUE, exc |-> exc, status |-> 500, kind |-> exc,
     num |-> 0, rows |-> {}]

\* The fields of a request body: data.get(k) is falsy when k is absent, and
\* for an empty string or a zero.
Has(data, k) == k \in DOMAIN data

TruthyStr(data, k) == Has(data, k) /\ data[k] # ""

TruthyInt(data, k) == Has(data, k) /\ data[k] # 0

RECURSIVE SumFees(_)
\* sum(detail.quantity * detail.price for detail in details)
SumFees(rows) ==
    IF rows = {} THEN 0
    ELSE LET r == CHOOSE x \in rows : TRUE
         IN r.quantity * r.price + SumFees(rows \ {r})

\* ------------------------------------------------------------------ units of work
\* insert_drug that overwrites the row of a name that exists.
insert_drug_upsert(db, data) ==
    Returned([db EXCEPT !.drugs = (@ \ DrugRows(db, data.drug_name))
                                    \cup {Drug(data.drug_name, data.price, data.stock)}],
             TRUE, 200, "ok", 0)

insert_drug(db, data) ==
    IF DrugRows(db, data.drug_name) # {}
    THEN Raised(db, "IntegrityError")
    ELSE Returned([db EXCEPT !.drugs = @ \cup {Drug(data.drug_name, data.price, data.stock)}],
                  TRUE, 200, "ok", 0)

insert_doctor(db, data) ==
    IF DoctorRows(db, data.doctor_id) # {}
    THEN Raised(db, "IntegrityError")
    ELSE Returned([db EXCEPT !.doctors = @ \cup {Doctor(data.doctor_id, data.doctor_name)}],
                  TRUE, 200, "ok", 0)

\* The unit of get_drug: the row as to_dict() gives it, or 404.
query_drug(db, drug_name) ==
    IF DrugRows(db, drug_name) = {}
    THEN Returned(db, FALSE, 404, "NotFound", 0)
    ELSE [Returned(db, FALSE, 200, "ok", 0) EXCEPT !.rows = DrugRows(db, drug_name)]

update_doctor_update(db, doctor_id, data) ==
    IF DoctorRows(db, doctor_id) = {}
    THEN Returned(db, FALSE, 404, "NotFound", 0)
    ELSE LET doctor == First(DoctorRows(db, doctor_id))
             named == IF Has(data, "doctor_name")
                      THEN [doctor EXCEPT !.doctor_name = data.doctor_name] ELSE doctor
         IN Returned([db EXCEPT !.doctors = (@ \ {doctor}) \cup {named}], TRUE, 200, "ok", 0)

\* update that carries a new price into the details of the drug.
update_drug_reprice(db, drug_name, data) ==
    IF DrugRows(db, drug_name) = {}
    THEN Returned(db, FALSE, 404, "NotFound", 0)
    ELSE LET drug == First(DrugRows(db, drug_name))
             priced == IF Has(data, "price") THEN [drug EXCEPT !.price = data.price] ELSE drug
             stocked == IF Has(data, "stock") THEN [priced EXCEPT !.stock = data.stock] ELSE priced
         IN Returned([db EXCEPT !.drugs = (@ \ {drug}) \cup {stocked},
                                !.details = {IF r.drug_name = drug_name
                                             THEN [r EXCEPT !.price = stocked.price]
                                             ELSE r : r \in @}],
                     TRUE, 200, "ok", 0)

\* update that takes a field the request leaves out as 0.
update_drug_reset(db, drug_name, data) ==
    IF DrugRows(db, drug_name) = {}
    THEN Returned(db, FALSE, 404, "NotFound", 0)
    ELSE LET drug == First(DrugRows(db, drug_name))
             priced == [drug EXCEPT !.price = IF Has(data, "price") THEN data.price ELSE 0]
             stocked == [priced EXCEPT !.stock = IF Has(data, "stock") THEN data.stock ELSE 0]
         IN Returned([db EXCEPT !.drugs = (@ \ {drug}) \cup {stocked}], TRUE, 200, "ok", 0)

update_drug_update(db, drug_name, data) ==
    IF DrugRows(db, drug_name) = {}
    THEN Returned(db, FALSE, 404, "NotFound", 0)
    ELSE LET drug == First(DrugRows(db, drug_name))
             priced == IF Has(data, "price") THEN [drug EXCEPT !.price = data.price] ELSE drug
             stocked == IF Has(data, "stock") THEN [priced EXCEPT !.stock = data.stock] ELSE priced
         IN Returned([db EXCEPT !.drugs = (@ \ {drug}) \cup {stocked}], TRUE, 200, "ok", 0)

\* delete without the check for referencing details.
delete_drug_unguarded(db, drug_name) ==
    IF DrugRows(db, drug_name) = {}
    THEN Returned(db, FALSE, 404, "NotFound", 0)
    ELSE Returned([db EXCEPT !.drugs = @ \ DrugRows(db, drug_name)], TRUE, 200, "ok", 0)

delete_drug_delete(db, drug_name) ==
    IF DrugRows(db, drug_name) = {}
    THEN Returned(db, FALSE, 404, "NotFound", 0)
    ELSE IF DetailsOfDrug(db, drug_name) # {}
    THEN Returned(db, FALSE, 400, "Conflict", Cardinality(DetailsOfDrug(db, drug_name)))
    ELSE Returned([db EXCEPT !.drugs = @ \ DrugRows(db, drug_name)], TRUE, 200, "ok", 0)

\* delete without the check for referencing prescriptions.
delete_doctor_unguarded(db, doctor_id) ==
    IF DoctorRows(db, doctor_id) = {}
    THEN Returned(db, FALSE, 404, "NotFound", 0)
    ELSE Returned([db EXCEPT !.doctors = @ \ DoctorRows(db, doctor_id)], TRUE, 200, "ok", 0)

delete_doctor_delete(db, doctor_id) ==
    IF DoctorRows(db, doctor_id) = {}
    THEN Returned(db, FALSE, 404, "NotFound", 0)
    ELSE IF PrescriptionsOfDoctor(db, doctor_id) # {}
    THEN Returned(db, FALSE, 400, "Conflict", Cardinality(PrescriptionsOfDoctor(db, doctor_id)))
    ELSE Returned([db EXCEPT !.doctors = @ \ DoctorRows(db, doctor_id)], TRUE, 200, "ok", 0)

\* insert_prescription without the check that the doctor exists.
insert_prescription_any_doctor(db, data) ==
    IF PrescriptionRows(db, data.prescription_id) # {}
    THEN Returned(db, FALSE, 400, "DuplicateKey", 0)
    ELSE Returned([db EXCEPT !.prescriptions =
                        @ \cup {Prescription(data.prescription_id, data.doctor_id)}],
                  TRUE, 200, "ok", 0)

insert_prescription(db, data) ==
    IF PrescriptionRows(db, data.prescription_id) # {}
    THEN Returned(db, FALSE, 400, "DuplicateKey", 0)
    ELSE IF DoctorRows(db, data.doctor_id) = {}
    THEN Returned(db, FALSE, 400, "InvalidReference", 0)
    ELSE Returned([db EXCEPT !.prescriptions =
                        @ \cup {Prescription(data.prescription_id, data.doctor_id)}],
                  TRUE, 200, "ok", 0)

\* delete that removes the prescription and leaves its details.
delete_prescription_only(db, prescription_id) ==
    IF PrescriptionRows(db, prescription_id) = {}
    THEN Returned(db, FALSE, 404, "NotFound", 0)
    ELSE Returned([db EXCEPT !.prescriptions = @ \ PrescriptionRows(db, prescription_id)],
                  TRUE, 200, "ok", 0)

RECURSIVE Restocked(_, _)
\* The drugs with the quantities of the given details back in stock.
Restocked(tbl, rows) ==
    IF rows = {} THEN tbl
    ELSE LET r == CHOOSE x \in rows : TRUE
         IN Restocked({IF g.drug_name = r.drug_name THEN [g EXCEPT !.stock = @ + r.quantity]
                       ELSE g : g \in tbl}, rows \ {r})

\* delete that returns what the details took to the stock.
delete_prescription_restock(db, prescription_id) ==
    IF PrescriptionRows(db, prescription_id) = {}
    THEN Returned(db, FALSE, 404, "NotFound", 0)
    ELSE Returned([db EXCEPT !.details = @ \ DetailsOfPrescription(db, prescription_id),
                             !.prescriptions = @ \ PrescriptionRows(db, prescription_id),
                             !.drugs = Restocked(@, DetailsOfPrescription(db, prescription_id))],
                  TRUE, 200, "ok", 0)

delete_prescription_delete(db, prescription_id) ==
    IF PrescriptionRows(db, prescription_id) = {}
    THEN Returned(db, FALSE, 404, "NotFound", 0)
    ELSE Returned([db EXCEPT !.details = @ \ DetailsOfPrescription(db, prescription_id),
                             !.prescriptions = @ \ PrescriptionRows(db, prescription_id)],
                  TRUE, 200, "ok", 0)

query_details(db, prescription_id) ==
    [Returned(db, FALSE, 200, "ok", 0) EXCEPT !.rows = DetailsOfPrescription(db, prescription_id)]

\* insert_detail that hands out what stock is left before it refuses.
insert_detail_partial(db, prescription_id, data) ==
    IF PrescriptionRows(db, prescription_id) = {}
    THEN Returned(db, FALSE, 400, "InvalidReference", 0)
    ELSE IF DrugRows(db, data.drug_name) = {}
    THEN Returned(db, FALSE, 400, "InvalidReference", 0)
    ELSE LET drug == First(DrugRows(db, data.drug_name))
             detail == PrescriptionDetail(db.next_id, prescription_id, data.drug_name,
                                          data.quantity, drug.price)
         IN IF drug.stock < data.quantity
            THEN Returned([db EXCEPT !.drugs = (@ \ {drug}) \cup {[drug EXCEPT !.stock = 0]}],
                          TRUE, 400, "InsufficientStock", drug.stock)
            ELSE Returned([db EXCEPT !.details = @ \cup {detail},
                                     !.next_id = @ + 1,
                                     !.drugs = (@ \ {drug}) \cup
                                               {[drug EXCEPT !.stock = @ - data.quantity]}],
                          TRUE, 200, "ok", detail.id)

\* insert_detail without its stock check.
insert_detail_unchecked(db, prescription_id, data) ==
    IF PrescriptionRows(db, prescription_id) = {}
    THEN Returned(db, FALSE, 400, "InvalidReference", 0)
    ELSE IF DrugRows(db, data.drug_name) = {}
    THEN Returned(db, FALSE, 400, "InvalidReference", 0)
    ELSE LET drug == First(DrugRows(db, data.drug_name))
             detail == PrescriptionDetail(db.next_id, prescription_id, data.drug_name,
                                          data.quantity, drug.price)
         IN Returned([db EXCEPT !.details = @ \cup {detail},
                                !.next_id = @ + 1,
                                !.drugs = (@ \ {drug}) \cup
                                          {[drug EXCEPT !.stock = @ - data.quantity]}],
                     TRUE, 200, "ok", detail.id)

\* insert_detail that brings total_fee up to date as it inserts.
insert_detail_recompute(db, prescription_id, data) ==
    IF PrescriptionRows(db, prescription_id) = {}
    THEN Returned(db, FALSE, 400, "InvalidReference", 0)
    ELSE IF DrugRows(db, data.drug_name) = {}
    THEN Returned(db, FALSE, 400, "InvalidReference", 0)
    ELSE LET drug == First(DrugRows(db, data.drug_name))
             detail == PrescriptionDetail(db.next_id, prescription_id, data.drug_name,
                                          data.quantity, drug.price)
             prescription == First(PrescriptionRows(db, prescription_id))
         IN IF drug.stock < data.quantity
            THEN Returned(db, FALSE, 400, "InsufficientStock", drug.stock)
            ELSE Returned([db EXCEPT !.details = @ \cup {detail},
                                     !.next_id = @ + 1,
                                     !.drugs = (@ \ {drug}) \cup
                                               {[drug EXCEPT !.stock = @ - data.quantity]},
                                     !.prescriptions = (@ \ {prescription}) \cup
                                         {[prescription EXCEPT !.total_fee =
                                             SumFees(DetailsOfPrescription(db, prescription_id)
                                                     \cup {detail})]}],
                          TRUE, 200, "ok", detail.id)

\* insert_detail without the check that the prescription exists.
insert_detail_any_prescription(db, prescription_id, data) ==
    IF DrugRows(db, data.drug_name) = {}
    THEN Returned(db, FALSE, 400, "InvalidReference", 0)
    ELSE LET drug == First(DrugRows(db, data.drug_name))
             detail == PrescriptionDetail(db.next_id, prescription_id, data.drug_name,
                                          data.quantity, drug.price)
         IN IF drug.stock < data.quantity
            THEN Returned(db, FALSE, 400, "InsufficientStock", drug.stock)
            ELSE Returned([db EXCEPT !.details = @ \cup {detail},
                                     !.next_id = @ + 1,
                                     !.drugs = (@ \ {drug}) \cup
                                               {[drug EXCEPT !.stock = @ - data.quantity]}],
                          TRUE, 200, "ok", detail.id)

insert_detail(db, prescription_id, data) ==
    IF PrescriptionRows(db, prescription_id) = {}
    THEN Returned(db, FALSE, 400, "InvalidReference", 0)
    ELSE IF DrugRows(db, data.drug_name) = {}
    THEN Returned(db, FALSE, 400, "InvalidReference", 0)
    ELSE LET drug == First(DrugRows(db, data.drug_name))
             detail == PrescriptionDetail(db.next_id, prescription_id, data.drug_name,
                                          data.quantity, drug.price)
         IN IF drug.stock < data.quantity
            THEN Returned(db, FALSE, 400, "InsufficientStock", drug.stock)
            ELSE Returned([db EXCEPT !.details = @ \cup {detail},
                                     !.next_id = @ + 1,
                                     !.drugs = (@ \ {drug}) \cup
                                               {[drug EXCEPT !.stock = @ - data.quantity]}],
                          TRUE, 200, "ok", detail.id)

RECURSIVE SumCurrentFees(_, _)
\* The fees at the prices the drugs have now.
SumCurrentFees(db, rows) ==
    IF rows = {} THEN 0
    ELSE LET r == CHOOSE x \in rows : TRUE
         IN r.quantity * First(DrugRows(db, r.drug_name)).price + SumCurrentFees(db, rows \ {r})

\* calculate that reads the price of each detail from its drug.
calculate_current_price(db, prescription_id) ==
    IF PrescriptionRows(db, prescription_id) = {}
    THEN Returned(db, FALSE, 404, "NotFound", 0)
    ELSE LET prescription == First(PrescriptionRows(db, prescription_id))
             total_fee == SumCurrentFees(db, DetailsOfPrescription(db, prescription_id))
         IN Returned([db EXCEPT !.prescriptions =
                            (@ \ {prescription}) \cup {[prescription EXCEPT !.total_fee = total_fee]}],
                     TRUE, 200, "ok", total_fee)

calculate(db, prescription_id) ==
    IF PrescriptionRows(db, prescription_id) = {}
    THEN Returned(db, FALSE, 404, "NotFound", 0)
    ELSE LET prescription == First(PrescriptionRows(db, prescription_id))
             total_fee == SumFees(DetailsOfPrescription(db, prescription_id))
         IN Returned([db EXCEPT !.prescriptions =
                            (@ \ {prescription}) \cup {[prescription EXCEPT !.total_fee = total_fee]}],
                     TRUE, 200, "ok", total_fee)

\* ------------------------------------------------------------------ transaction coordinator
max_retries == 3

\* What the storage does to one attempt of a unit of work: "up" lets it run;
\* "lost_first" and "lost_commit" raise OperationalError "Lost connection to
\* MySQL server" at its first storage access and at its commit; "op_error"
\* raises another OperationalError at its first storage access.
Conds == {"up", "lost_first", "lost_commit", "op_error"}

HealthyNet == [i \in 1 .. max_retries |-> "up"]

\* The conditions of the attempts of one call: k lost attempts, then one that
\* ends the loop (the conditions after it are never looked at).
Net(k, lost, last) ==
    [i \in 1 .. max_retries |-> IF i <= k THEN lost ELSE IF i = k + 1 THEN last ELSE "up"]

Nets ==
    {Net(k, lost, last) : k \in 0 .. max_retries, lost \in {"lost_first", "lost_commit"},
                          last \in {"up", "op_error"}}

\* A request to the coordinator: the unit of work and what it closes over.
Request(fn, key, data) == [fn |-> fn, key |-> key, data |-> data]

Run(req, db) ==
    CASE req.fn = "insert_drug" -> insert_drug(db, req.data)
      [] req.fn = "insert_doctor" -> insert_doctor(db, req.data)
      [] req.fn = "update_drug" -> update_drug_update(db, req.key, req.data)
      [] req.fn = "delete_drug" -> delete_drug_delete(db, req.key)
      [] req.fn = "delete_doctor" -> delete_doctor_delete(db, req.key)
      [] req.fn = "insert_prescription" -> insert_prescription(db, req.data)
      [] req.fn = "delete_prescription" -> delete_prescription_delete(db, req.key)
      [] req.fn = "query_details" -> query_details(db, req.key)
      [] req.fn = "insert_detail" -> insert_detail(db, req.key, req.data)
      [] req.fn = "calculate" -> calculate(db, req.key)
      [] req.fn = "query_drug" -> query_drug(db, req.key)
      [] req.fn = "update_doctor" -> update_doctor_update(db, req.key, req.data)

\* A commit that loses the connection and has written the transaction all the same.
commit_lost_applied(before, after) == after

\* A commit that loses the connection leaves nothing of the transaction behind.
commit_lost(before, after) == before

\* One call func() under the storage condition cond.
Attempt(req, db, cond) ==
    LET r == Run(req, db)
    IN CASE cond = "lost_first" -> Raised(db, "LostConnection")
         [] cond = "op_error" -> Raised(db, "OperationalError")
         [] cond = "lost_commit" ->
                IF r.commits /\ r.exc = "none"
                THEN Raised(commit_lost(db, r.db), "LostConnection")
                ELSE r
         [] OTHER -> r

RECURSIVE execute_with_retry_short(_, _, _, _)
\* A loop that gives up one attempt early.
execute_with_retry_short(req, db, net, attempt) ==
    LET r == Attempt(req, db, net[attempt + 1])
    IN IF r.exc = "LostConnection" /\ attempt < max_retries - 2
       THEN execute_with_retry_short(req, r.db, net, attempt + 1)
       ELSE [r EXCEPT !.db = r.db] @@ [tries |-> attempt + 1]

RECURSIVE execute_with_retry_any_error(_, _, _, _)
\* A loop that retries whatever the unit of work raised.
execute_with_retry_any_error(req, db, net, attempt) ==
    LET r == Attempt(req, db, net[attempt + 1])
    IN IF r.exc # "none" /\ attempt < max_retries - 1
       THEN execute_with_retry_any_error(req, r.db, net, attempt + 1)
       ELSE [r EXCEPT !.db = r.db] @@ [tries |-> attempt + 1]

RECURSIVE execute_with_retry(_, _, _, _)
\* for attempt in range(max_retries): the outcome of the call, with the number
\* of times func ran.
execute_with_retry(req, db, net, attempt) ==
    LET r == Attempt(req, db, net[attempt + 1])
    IN IF r.exc = "LostConnection" /\ attempt < max_retries - 1
       THEN execute_with_retry(req, r.db, net, attempt + 1)
       ELSE [r EXCEPT !.db = r.db] @@ [tries |-> attempt + 1]

\* ------------------------------------------------------------------ request handlers
Response(op, r) ==
    [op |-> op, status |-> r.status, kind |-> r.kind, num |-> r.num, rows |-> r.rows,
     tries |-> r.tries]

\* A handler that answers before it calls the coordinator.
Rejected(op, kind) ==
    [op |-> op, status |-> 400, kind |-> kind, num |-> 0, rows |-> {}, tries |-> 0]

\* An exception no handler names reaches the caller as status 500: Lost
\* connection after the last attempt is StorageUnavailable.
Failure(r) ==
    [r EXCEPT !.status = 500,
              !.kind = IF r.exc = "LostConnection" THEN "StorageUnavailable" ELSE "InternalError"]

\* One more request served, of the MaxRequests of a run.
Served ==
    /\ served < MaxRequests
    /\ served' = served + 1
    /\ UNCHANGED sess

Store(r) ==
    /\ Served
    /\ drugs' = r.db.drugs
    /\ doctors' = r.db.doctors
    /\ prescriptions' = r.db.prescriptions
    /\ prescription_details' = r.db.details
    /\ next_detail_id' = r.db.next_id

Answer(op, r) ==
    /\ Store(r)
    /\ resp' = Response(op, IF r.exc = "none" THEN r ELSE Failure(r))

add_drug(data, nets) ==
    \E net \in nets :
        LET r == execute_with_retry(Request("insert_drug", data.drug_name, data), DB, net, 0)
        IN IF r.exc = "IntegrityError"
           THEN Store(r) /\ resp' = Response("add_drug", [r EXCEPT !.status = 400, !.kind = "DuplicateKey"])
           ELSE Answer("add_drug", r)

update_drug(drug_name, data, nets) ==
    \E net \in nets :
        Answer("update_drug",
               execute_with_retry(Request("update_drug", drug_name, data), DB, net, 0))

delete_drug(drug_name, nets) ==
    \E net \in nets :
        Answer("delete_drug",
               execute_with_retry(Request("delete_drug", drug_name, <<>>), DB, net, 0))

add_doctor(data, nets) ==
    \E net \in nets :
        LET r == execute_with_retry(Request("insert_doctor", data.doctor_id, data), DB, net, 0)
        IN IF r.exc = "IntegrityError"
           THEN Store(r) /\ resp' = Response("add_doctor", [r EXCEPT !.status = 400, !.kind = "DuplicateKey"])
           ELSE Answer("add_doctor", r)

delete_doctor(doctor_id, nets) ==
    \E net \in nets :
        Answer("delete_doctor",
               execute_with_retry(Request("delete_doctor", doctor_id, <<>>), DB, net, 0))

add_prescription(data, nets) ==
    IF ~TruthyStr(data, "prescription_id") \/ ~TruthyStr(data, "doctor_id")
    THEN /\ resp' = Rejected("add_prescription", "InvalidInput")
         /\ Served
         /\ UNCHANGED <<drugs, doctors, prescriptions, prescription_details, next_detail_id>>
    ELSE \E net \in nets :
             Answer("add_prescription",
                    execute_with_retry(Request("insert_prescription", data.prescription_id, data),
                                       DB, net, 0))

delete_prescription(prescription_id, nets) ==
    \E net \in nets :
        Answer("delete_prescription",
               execute_with_retry(Request("delete_prescription", prescription_id, <<>>), DB, net, 0))

get_prescription_details(prescription_id, nets) ==
    \E net \in nets :
        Answer("get_prescription_details",
               execute_with_retry(Request("query_details", prescription_id, <<>>), DB, net, 0))

add_prescription_detail(prescription_id, data, nets) ==
    /\ next_detail_id <= MaxDetails
    /\ IF ~TruthyStr(data, "drug_name") \/ ~TruthyInt(data, "quantity") \/ data.quantity <= 0
       THEN /\ resp' = Rejected("add_prescription_detail", "InvalidInput")
            /\ Served
            /\ UNCHANGED <<drugs, doctors, prescriptions, prescription_details, next_detail_id>>
       ELSE \E net \in nets :
                Answer("add_prescription_detail",
                       execute_with_retry(Request("insert_detail", prescription_id, data), DB, net, 0))

calculate_prescription(prescription_id, nets) ==
    \E net \in nets :
        Answer("calculate_prescription",
               execute_with_retry(Request("calculate", prescription_id, <<>>), DB, net, 0))

get_drug(drug_name, nets) ==
    \E net \in nets :
        Answer("get_drug",
               execute_with_retry(Request("query_drug", drug_name, <<>>), DB, net, 0))

update_doctor(doctor_id, data, nets) ==
    \E net \in nets :
        Answer("update_doctor",
               execute_with_retry(Request("update_doctor", doctor_id, data), DB, net, 0))

\* ------------------------------------------------------------------ concurrent requests
\* Requests served at the same time, each with its own session.  A request
\* for add_prescription_detail does one storage statement per step: the
\* prescription query, the drug query with the stock check, and the commit
\* that writes the pending detail and the stock its session computed.
Workers == {1, 2}

NoDrug == Drug("", 0, 0)

Idle(kind) ==
    [pc |-> "idle", prescription_id |-> "", data |-> <<>>, drug |-> NoDrug, rows |-> {},
     kind |-> kind]

\* A request that has run its first statement and goes on at pc.
Running(pc, key, data) ==
    [pc |-> pc, prescription_id |-> key, data |-> data, drug |-> NoDrug, rows |-> {},
     kind |-> "running"]

\* A storage that does not look at the REFERENCES of a column.
Unenforced(rows) == TRUE

\* db.ForeignKey on a column: the storage refuses to write a row when the
\* row it references is not there (parents are the rows it finds) ...
References(parents) == parents # {}

\* ... and refuses to delete a row that rows of the other table reference.
Restricts(children) == children = {}

InFlight == {w \in Workers : sess[w].pc # "idle"}

detail_validate(w, prescription_id, data) ==
    /\ sess[w].pc = "idle"
    /\ next_detail_id + Cardinality(InFlight) <= MaxDetails
    /\ IF ~TruthyStr(data, "drug_name") \/ ~TruthyInt(data, "quantity") \/ data.quantity <= 0
       THEN sess' = [sess EXCEPT ![w] = Idle("InvalidInput")]
       ELSE sess' = [sess EXCEPT ![w] = Running("query_prescription", prescription_id, data)]
    /\ UNCHANGED <<drugs, doctors, prescriptions, prescription_details, next_detail_id, resp, served>>

detail_query_prescription(w) ==
    /\ sess[w].pc = "query_prescription"
    /\ IF PrescriptionRows(DB, sess[w].prescription_id) = {}
       THEN sess' = [sess EXCEPT ![w] = Idle("InvalidReference")]
       ELSE sess' = [sess EXCEPT ![w].pc = "query_drug"]
    /\ UNCHANGED <<drugs, doctors, prescriptions, prescription_details, next_detail_id, resp, served>>

detail_query_drug(w) ==
    /\ sess[w].pc = "query_drug"
    /\ IF DrugRows(DB, sess[w].data.drug_name) = {}
       THEN sess' = [sess EXCEPT ![w] = Idle("InvalidReference")]
       ELSE LET drug == First(DrugRows(DB, sess[w].data.drug_name))
            IN IF drug.stock < sess[w].data.quantity
               THEN sess' = [sess EXCEPT ![w] = Idle("InsufficientStock")]
               ELSE sess' = [sess EXCEPT ![w].pc = "commit", ![w].drug = drug]
    /\ UNCHANGED <<drugs, doctors, prescriptions, prescription_details, next_detail_id, resp, served>>

\* The session flushes UPDATE drugs SET stock = (the stock it read minus the
\* quantity) and INSERT prescription_details, and commits; the storage refuses
\* when the drug or the prescription is gone, and nothing is written.
detail_commit(w) ==
    /\ sess[w].pc = "commit"
    /\ LET drug == sess[w].drug
           data == sess[w].data
       IN IF /\ References(PrescriptionRows(DB, sess[w].prescription_id))
             /\ References(DrugRows(DB, data.drug_name))
          THEN /\ prescription_details' = prescription_details \cup
                      {PrescriptionDetail(next_detail_id, sess[w].prescription_id,
                                          data.drug_name, data.quantity, drug.price)}
               /\ next_detail_id' = next_detail_id + 1
               /\ drugs' = {IF g.drug_name = drug.drug_name
                            THEN [g EXCEPT !.stock = drug.stock - data.quantity]
                            ELSE g : g \in drugs}
               /\ sess' = [sess EXCEPT ![w] = Idle("ok")]
          ELSE /\ sess' = [sess EXCEPT ![w] = Idle("IntegrityError")]
               /\ UNCHANGED <<drugs, prescription_details, next_detail_id>>
    /\ UNCHANGED <<doctors, prescriptions, resp, served>>

\* delete_drug, one storage statement per step.
delete_drug_query_drug(w, drug_name) ==
    /\ sess[w].pc = "idle"
    /\ IF DrugRows(DB, drug_name) = {}
       THEN sess' = [sess EXCEPT ![w] = Idle("NotFound")]
       ELSE sess' = [sess EXCEPT ![w] = Running("delete_drug_query_details", drug_name, <<>>)]
    /\ UNCHANGED <<drugs, doctors, prescriptions, prescription_details, next_detail_id, resp, served>>

delete_drug_query_details(w) ==
    /\ sess[w].pc = "delete_drug_query_details"
    /\ IF DetailsOfDrug(DB, sess[w].prescription_id) # {}
       THEN sess' = [sess EXCEPT ![w] = Idle("Conflict")]
       ELSE sess' = [sess EXCEPT ![w].pc = "delete_drug_commit"]
    /\ UNCHANGED <<drugs, doctors, prescriptions, prescription_details, next_detail_id, resp, served>>

\* DELETE FROM drugs and commit.
delete_drug_commit(w) ==
    /\ sess[w].pc = "delete_drug_commit"
    /\ IF /\ DrugRows(DB, sess[w].prescription_id) # {}
          /\ Restricts(DetailsOfDrug(DB, sess[w].prescription_id))
       THEN /\ drugs' = drugs \ DrugRows(DB, sess[w].prescription_id)
            /\ sess' = [sess EXCEPT ![w] = Idle("ok")]
       ELSE /\ sess' = [sess EXCEPT ![w] = Idle("IntegrityError")]
            /\ UNCHANGED drugs
    /\ UNCHANGED <<doctors, prescriptions, prescription_details, next_detail_id, resp, served>>

\* delete_doctor, one storage statement per step.
delete_doctor_query_doctor(w, doctor_id) ==
    /\ sess[w].pc = "idle"
    /\ IF DoctorRows(DB, doctor_id) = {}
       THEN sess' = [sess EXCEPT ![w] = Idle("NotFound")]
       ELSE sess' = [sess EXCEPT ![w] =
                        Running("delete_doctor_query_prescriptions", doctor_id, <<>>)]
    /\ UNCHANGED <<drugs, doctors, prescriptions, prescription_details, next_detail_id, resp, served>>

delete_doctor_query_prescriptions(w) ==
    /\ sess[w].pc = "delete_doctor_query_prescriptions"
    /\ IF PrescriptionsOfDoctor(DB, sess[w].prescription_id) # {}
       THEN sess' = [sess EXCEPT ![w] = Idle("Conflict")]
       ELSE sess' = [sess EXCEPT ![w].pc = "delete_doctor_commit"]
    /\ UNCHANGED <<drugs, doctors, prescriptions, prescription_details, next_detail_id, resp, served>>

\* DELETE FROM doctors and commit.
delete_doctor_commit(w) ==
    /\ sess[w].pc = "delete_doctor_commit"
    /\ IF /\ DoctorRows(DB, sess[w].prescription_id) # {}
          /\ Restricts(PrescriptionsOfDoctor(DB, sess[w].prescription_id))
       THEN /\ doctors' = doctors \ DoctorRows(DB, sess[w].prescription_id)
            /\ sess' = [sess EXCEPT ![w] = Idle("ok")]
       ELSE /\ sess' = [sess EXCEPT ![w] = Idle("IntegrityError")]
            /\ UNCHANGED doctors
    /\ UNCHANGED <<drugs, prescriptions, prescription_details, next_detail_id, resp, served>>

\* delete_prescription, one storage statement per step.
delete_prescription_query(w, prescription_id) ==
    /\ sess[w].pc = "idle"
    /\ IF PrescriptionRows(DB, prescription_id) = {}
       THEN sess' = [sess EXCEPT ![w] = Idle("NotFound")]
       ELSE sess' = [sess EXCEPT ![w] =
                        Running("delete_prescription_details", prescription_id, <<>>)]
    /\ UNCHANGED <<drugs, doctors, prescriptions, prescription_details, next_detail_id, resp, served>>

\* DELETE FROM prescription_details WHERE prescription_id = ..., in the
\* transaction of the session: the rows it hits are gone at its commit.
delete_prescription_details(w) ==
    /\ sess[w].pc = "delete_prescription_details"
    /\ sess' = [sess EXCEPT ![w].pc = "delete_prescription_commit",
                            ![w].rows = DetailsOfPrescription(DB, sess[w].prescription_id)]
    /\ UNCHANGED <<drugs, doctors, prescriptions, prescription_details, next_detail_id, resp, served>>

\* DELETE FROM prescriptions and commit.
delete_prescription_commit(w) ==
    /\ sess[w].pc = "delete_prescription_commit"
    /\ IF /\ PrescriptionRows(DB, sess[w].prescription_id) # {}
          /\ Restricts(DetailsOfPrescription(DB, sess[w].prescription_id) \ sess[w].rows)
       THEN /\ prescription_details' = prescription_details \ sess[w].rows
            /\ prescriptions' = prescriptions \ PrescriptionRows(DB, sess[w].prescription_id)
            /\ sess' = [sess EXCEPT ![w] = Idle("ok")]
       ELSE /\ sess' = [sess EXCEPT ![w] = Idle("IntegrityError")]
            /\ UNCHANGED <<prescriptions, prescription_details>>
    /\ UNCHANGED <<drugs, doctors, next_detail_id, resp, served>>

\* add_prescription, one storage statement per step.
add_prescription_query_existing(w, data) ==
    /\ sess[w].pc = "idle"
    /\ IF ~TruthyStr(data, "prescription_id") \/ ~TruthyStr(data, "doctor_id")
       THEN sess' = [sess EXCEPT ![w] = Idle("InvalidInput")]
       ELSE IF PrescriptionRows(DB, data.prescription_id) # {}
       THEN sess' = [sess EXCEPT ![w] = Idle("DuplicateKey")]
       ELSE sess' = [sess EXCEPT ![w] =
                        Running("add_prescription_query_doctor", data.prescription_id, data)]
    /\ UNCHANGED <<drugs, doctors, prescriptions, prescription_details, next_detail_id, resp, served>>

add_prescription_query_doctor(w) ==
    /\ sess[w].pc = "add_prescription_query_doctor"
    /\ IF DoctorRows(DB, sess[w].data.doctor_id) = {}
       THEN sess' = [sess EXCEPT ![w] = Idle("InvalidReference")]
       ELSE sess' = [sess EXCEPT ![w].pc = "add_prescription_commit"]
    /\ UNCHANGED <<drugs, doctors, prescriptions, prescription_details, next_detail_id, resp, served>>

\* INSERT INTO prescriptions and commit.
add_prescription_commit(w) ==
    /\ sess[w].pc = "add_prescription_commit"
    /\ IF /\ PrescriptionRows(DB, sess[w].data.prescription_id) = {}
          /\ References(DoctorRows(DB, sess[w].data.doctor_id))
       THEN /\ prescriptions' = prescriptions \cup
                   {Prescription(sess[w].data.prescription_id, sess[w].data.doctor_id)}
            /\ sess' = [sess EXCEPT ![w] = Idle("ok")]
       ELSE /\ sess' = [sess EXCEPT ![w] = Idle("IntegrityError")]
            /\ UNCHANGED prescriptions
    /\ UNCHANGED <<drugs, doctors, prescription_details, next_detail_id, resp, served>>

\* ------------------------------------------------------------------ request bodies
DrugBodies(prices, stocks) == [drug_name : DrugNames, price : prices, stock : stocks]

DrugUpdates(prices, stocks) ==
    [price : prices, stock : stocks] \cup [price : prices] \cup [stock : stocks] \cup {<<>>}

DoctorBodies == [doctor_id : DoctorIds, doctor_name : DoctorNames]

DoctorUpdates == [doctor_name : NewDoctorNames] \cup {<<>>}

PrescriptionBodies ==
    [prescription_id : PrescriptionIds \cup {""}, doctor_id : DoctorIds \cup {"x0"}]
        \cup [prescription_id : PrescriptionIds] \cup [doctor_id : DoctorIds]

DetailBodies ==
    [drug_name : DrugNames, quantity : Quantities] \cup [drug_name : DrugNames]
        \cup [quantity : {1}]

\* ------------------------------------------------------------------ specification
Init ==
    /\ drugs = {}
    /\ doctors = {}
    /\ prescriptions = {}
    /\ prescription_details = {}
    /\ next_detail_id = 1
    /\ resp = [op |-> "none", status |-> 200, kind |-> "ok", num |-> 0, rows |-> {}, tries |-> 0]
    /\ sess = [w \in Workers |-> Idle("none")]
    /\ served = 0

\* The requests of clients that supply the given prices and stocks, against a
\* storage that behaves as one of nets, in a run of at most max requests.
Handle(nets, prices, stocks, max) ==
    \/ \E data \in DrugBodies(prices, stocks) : served < max /\ add_drug(data, nets)
    \/ \E name \in DrugNames, data \in DrugUpdates(prices, stocks) : served < max /\ update_drug(name, data, nets)
    \/ \E name \in DrugNames : served < max /\ delete_drug(name, nets)
    \/ \E data \in DoctorBodies : served < max /\ add_doctor(data, nets)
    \/ \E id \in DoctorIds : served < max /\ delete_doctor(id, nets)
    \/ \E data \in PrescriptionBodies : served < max /\ add_prescription(data, nets)
    \/ \E id \in PrescriptionIds : served < max /\ delete_prescription(id, nets)
    \/ \E id \in PrescriptionIds : served < max /\ get_prescription_details(id, nets)
    \/ \E id \in PrescriptionIds, data \in DetailBodies : served < max /\ add_prescription_detail(id, data, nets)
    \/ \E id \in PrescriptionIds : served < max /\ calculate_prescription(id, nets)

\* Every request runs against a storage that stays up.
Healthy == {HealthyNet}

Next == Handle(Healthy, Prices, Stocks, MaxRequests)

Spec == Init /\ [][Next]_vars

\* The same with the requests that read a drug and rename a doctor.
NextAll ==
    \/ Handle(Healthy, Prices, Stocks, MaxRequests)
    \/ \E name \in DrugNames : served < MaxRequests /\ get_drug(name, Healthy)
    \/ \E id \in DoctorIds, data \in DoctorUpdates :
            served < MaxRequests /\ update_doctor(id, data, Healthy)

SpecAll == Init /\ [][NextAll]_vars

\* The storage may lose the connection, or fail otherwise, in any attempt; the
\* clients supply one price and one stock.
NextRetry == Handle(Nets, {1}, {MaxStock}, MaxFaultyRequests)

SpecRetry == Init /\ [][NextRetry]_vars

\* Two requests for add_prescription_detail at a time, against a store that
\* holds a doctor, her two prescriptions and the drug d1 with InitialStock.
InitialStock == MaxStock

InitConc ==
    /\ drugs = {Drug("d1", 1, InitialStock)}
    /\ doctors = {Doctor("x1", "n1")}
    /\ prescriptions = {Prescription(id, "x1") : id \in PrescriptionIds}
    /\ prescription_details = {}
    /\ next_detail_id = 1
    /\ resp = [op |-> "none", status |-> 200, kind |-> "ok", num |-> 0, rows |-> {}, tries |-> 0]
    /\ sess = [w \in Workers |-> Idle("none")]
    /\ served = 0

NextConc ==
    \/ \E w \in Workers, id \in PrescriptionIds, data \in DetailBodies :
            detail_validate(w, id, data)
    \/ \E w \in Workers : detail_query_prescription(w)
    \/ \E w \in Workers : detail_query_drug(w)
    \/ \E w \in Workers : detail_commit(w)

SpecConc == InitConc /\ [][NextConc]_vars

\* A deletion served at the same time as an insertion that names the row it
\* deletes, in a store that holds a doctor, a drug with InitialStock and the
\* doctor's prescription p1.
RaceBodies == [drug_name : DrugNames, quantity : {1}]

InitRace ==
    /\ drugs = {Drug("d1", 1, InitialStock)}
    /\ doctors = {Doctor("x1", "n1")}
    /\ prescriptions = {Prescription("p1", "x1")}
    /\ prescription_details = {}
    /\ next_detail_id = 1
    /\ resp = [op |-> "none", status |-> 200, kind |-> "ok", num |-> 0, rows |-> {}, tries |-> 0]
    /\ sess = [w \in Workers |-> Idle("none")]
    /\ served = 0

NextRace ==
    \/ \E w \in Workers, id \in PrescriptionIds, data \in RaceBodies :
            detail_validate(w, id, data)
    \/ \E w \in Workers : detail_query_prescription(w)
    \/ \E w \in Workers : detail_query_drug(w)
    \/ \E w \in Workers : detail_commit(w)
    \/ \E w \in Workers, name \in DrugNames : delete_drug_query_drug(w, name)
    \/ \E w \in Workers : delete_drug_query_details(w)
    \/ \E w \in Workers : delete_drug_commit(w)
    \/ \E w \in Workers, id \in DoctorIds : delete_doctor_query_doctor(w, id)
    \/ \E w \in Workers : delete_doctor_query_prescriptions(w)
    \/ \E w \in Workers : delete_doctor_commit(w)
    \/ \E w \in Workers, id \in PrescriptionIds : delete_prescription_query(w, id)
    \/ \E w \in Workers : delete_prescription_details(w)
    \/ \E w \in Workers : delete_prescription_commit(w)
    \/ \E w \in Workers, data \in [prescription_id : PrescriptionIds, doctor_id : DoctorIds] :
            add_prescription_query_existing(w, data)
    \/ \E w \in Workers : add_prescription_query_doctor(w)
    \/ \E w \in Workers : add_prescription_commit(w)

SpecRace == InitRace /\ [][NextRace]_vars

\* ------------------------------------------------------------------ claims
\* What the claims read off a state.
StoreVars == <<drugs, doctors, prescriptions, prescription_details, next_detail_id>>

DrugExists(name) == \E r \in drugs : r.drug_name = name

PrescriptionExists(id) == \E r \in prescriptions : r.prescription_id = id

DoctorExists(id) == \E r \in doctors : r.doctor_id = id

StockOf(tbl, name) == (CHOOSE r \in tbl : r.drug_name = name).stock

WellFormedDetail(data) ==
    /\ "drug_name" \in DOMAIN data /\ data.drug_name # ""
    /\ "quantity" \in DOMAIN data /\ data.quantity > 0

\* C1: a call of addPrescriptionDetail for an existing prescription and drug
\* with a quantity > 0 either succeeds, and then the stock is the stock before
\* minus the quantity and is not negative, or the quantity exceeds the stock,
\* and then it fails with InsufficientStock, the stock is unchanged and no
\* detail is created; no call takes a stock that is not negative below zero.
C1_InventoryLedger ==
    [][\A id \in PrescriptionIds, data \in DetailBodies :
          (/\ resp'.op = "add_prescription_detail"
           /\ WellFormedDetail(data)
           /\ PrescriptionExists(id)
           /\ DrugExists(data.drug_name)
           /\ add_prescription_detail(id, data, Healthy))
          => LET before == StockOf(drugs, data.drug_name)
                 after == StockOf(drugs', data.drug_name)
             IN /\ DrugExists(data.drug_name)'
                /\ before >= 0 => after >= 0
                /\ IF data.quantity > before
                   THEN /\ resp'.kind = "InsufficientStock"
                        /\ after = before
                        /\ prescription_details' = prescription_details
                   ELSE /\ resp'.kind = "ok"
                        /\ after = before - data.quantity
                        /\ after >= 0
                        /\ Cardinality(prescription_details') = Cardinality(prescription_details) + 1
       ]_vars

\* Two successful calls in a row have taken the stock of d1 from MaxStock to 0.
C1_Witness ==
    /\ resp.op = "add_prescription_detail" /\ resp.kind = "ok"
    /\ Cardinality({r \in prescription_details : r.drug_name = "d1"}) = 2
    /\ DrugExists("d1") /\ StockOf(drugs, "d1") = 0

\* C3: every existing Drug has stock >= 0.
C3_StockNonNegative == \A r \in drugs : r.stock >= 0

RECURSIVE FeeUpTo(_, _, _)
\* The fee of the details of prescription id numbered 1 .. n, taken row by row.
FeeUpTo(tbl, id, n) ==
    IF n = 0 THEN 0
    ELSE LET rows == {r \in tbl : r.id = n /\ r.prescription_id = id}
         IN FeeUpTo(tbl, id, n - 1)
              + (IF rows = {} THEN 0
                 ELSE (CHOOSE r \in rows : TRUE).quantity * (CHOOSE r \in rows : TRUE).price)

ExpectedTotal(id) == FeeUpTo(prescription_details, id, next_detail_id - 1)

\* C4: calculatePrescriptionTotal(p) on an existing prescription returns, and
\* stores in p.total_fee, the sum over the current details of p of quantity
\* times the price kept in the detail, and changes nothing else; on a
\* prescription that does not exist it answers NotFound and changes nothing.
C4_FeeCalculator ==
    [][\A id \in PrescriptionIds :
          (resp'.op = "calculate_prescription" /\ calculate_prescription(id, Healthy))
          => IF PrescriptionExists(id)
             THEN /\ resp'.kind = "ok"
                  /\ resp'.num = ExpectedTotal(id)
                  /\ prescriptions' =
                        {IF r.prescription_id = id THEN [r EXCEPT !.total_fee = ExpectedTotal(id)]
                         ELSE r : r \in prescriptions}
                  /\ UNCHANGED <<drugs, doctors, prescription_details, next_detail_id>>
             ELSE /\ resp'.kind = "NotFound"
                  /\ UNCHANGED StoreVars
       ]_vars

\* A total over two details, one of them bought at a price the drug no longer has.
C4_Witness ==
    /\ resp.op = "calculate_prescription" /\ resp.kind = "ok"
    /\ \E p \in prescriptions :
          /\ p.total_fee = resp.num
          /\ resp.num = ExpectedTotal(p.prescription_id)
          /\ Cardinality({r \in prescription_details : r.prescription_id = p.prescription_id}) = 2
          /\ \E r \in prescription_details, g \in drugs :
                /\ r.prescription_id = p.prescription_id
                /\ r.drug_name = g.drug_name
                /\ r.price # g.price

\* C6: deleteDrug on a drug that n >= 1 details reference answers Conflict with
\* count n and changes nothing; on a drug no detail references it succeeds and
\* the drug is gone; and no detail outlives its prescription, so deleting
\* the prescriptions that own the details leaves none.
C6_DeleteDrugGuard ==
    [][/\ \A name \in DrugNames :
             (resp'.op = "delete_drug" /\ delete_drug(name, Healthy) /\ DrugExists(name))
             => LET n == Cardinality({r \in prescription_details : r.drug_name = name})
                IN IF n >= 1
                   THEN /\ resp'.kind = "Conflict"
                        /\ resp'.num = n
                        /\ UNCHANGED StoreVars
                   ELSE /\ resp'.kind = "ok"
                        /\ drugs' = {r \in drugs : r.drug_name # name}
                        /\ UNCHANGED <<doctors, prescriptions, prescription_details, next_detail_id>>
       /\ \A r \in prescription_details' :
             \E q \in prescriptions' : q.prescription_id = r.prescription_id
       ]_vars

\* deleteDrug was refused because two details reference the drug.
C6_Witness ==
    /\ resp.op = "delete_drug" /\ resp.kind = "Conflict" /\ resp.num = 2
    /\ DrugExists("d1")
    /\ Cardinality({r \in prescription_details : r.drug_name = "d1"}) = 2

\* C7: deleteDoctor answers NotFound when the doctor does not exist, Conflict
\* (nothing changed) when a Prescription has that doctor_id, and deletes the
\* doctor, and nothing else, otherwise.
C7_DeleteDoctorGuard ==
    [][\A id \in DoctorIds :
          (resp'.op = "delete_doctor" /\ delete_doctor(id, Healthy))
          => IF ~DoctorExists(id)
             THEN resp'.kind = "NotFound" /\ UNCHANGED StoreVars
             ELSE IF \E p \in prescriptions : p.doctor_id = id
             THEN resp'.kind = "Conflict" /\ UNCHANGED StoreVars
             ELSE /\ resp'.kind = "ok"
                  /\ doctors' = {r \in doctors : r.doctor_id # id}
                  /\ UNCHANGED <<drugs, prescriptions, prescription_details, next_detail_id>>
       ]_vars

\* deleteDoctor was refused: the doctor has a prescription and is still there.
C7_Witness ==
    /\ resp.op = "delete_doctor" /\ resp.kind = "Conflict"
    /\ DoctorExists("x1")
    /\ \E p \in prescriptions : p.doctor_id = "x1"

\* C8: deletePrescription(id) on an existing prescription removes it and all
\* the details of id, and no other row; on a missing id it answers NotFound
\* and deletes nothing; listPrescriptionDetails(id) of a prescription that is
\* gone returns the empty list.
C8_Cascade ==
    [][\A id \in PrescriptionIds :
          /\ (resp'.op = "delete_prescription" /\ delete_prescription(id, Healthy))
             => IF PrescriptionExists(id)
                THEN /\ resp'.kind = "ok"
                     /\ prescriptions' = {r \in prescriptions : r.prescription_id # id}
                     /\ prescription_details' =
                           {r \in prescription_details : r.prescription_id # id}
                     /\ UNCHANGED <<drugs, doctors, next_detail_id>>
                ELSE resp'.kind = "NotFound" /\ UNCHANGED StoreVars
          /\ (/\ resp'.op = "get_prescription_details"
              /\ get_prescription_details(id, Healthy)
              /\ ~PrescriptionExists(id))
             => resp'.kind = "ok" /\ resp'.rows = {} /\ UNCHANGED StoreVars
       ]_vars

\* Two details were inserted, p1 was deleted with its detail, the detail of p2
\* is still there, and the list of p1 came back empty.
C8_Witness ==
    /\ resp.op = "get_prescription_details" /\ resp.rows = {}
    /\ ~PrescriptionExists("p1")
    /\ next_detail_id = 3
    /\ \E r \in prescription_details : r.prescription_id = "p2"
    /\ Cardinality(prescription_details) = 1

\* The answer the claims expect of addPrescriptionDetail(id, data).
ExpectedDetailKind(id, data) ==
    IF ~WellFormedDetail(data) THEN "InvalidInput"
    ELSE IF ~PrescriptionExists(id) \/ ~DrugExists(data.drug_name) THEN "InvalidReference"
    ELSE IF StockOf(drugs, data.drug_name) < data.quantity THEN "InsufficientStock"
    ELSE "ok"

\* C9: addPrescriptionDetail fails with InvalidInput (quantity absent or <= 0,
\* drug name absent), InvalidReference (prescription or drug missing) or
\* InsufficientStock (stock < quantity), and a call that fails changes no
\* row; an InvalidInput is answered before the unit of work runs.
C9_FailedDetailUntouched ==
    [][\A id \in PrescriptionIds, data \in DetailBodies :
          (resp'.op = "add_prescription_detail" /\ add_prescription_detail(id, data, Healthy))
          => /\ resp'.kind = ExpectedDetailKind(id, data)
             /\ resp'.kind # "ok" => UNCHANGED StoreVars
             /\ resp'.kind = "InvalidInput" => resp'.tries = 0
       ]_vars

\* A request without a usable quantity was refused in a store that has a drug
\* in stock and a prescription.
C9_Witness ==
    /\ resp.op = "add_prescription_detail" /\ resp.kind = "InvalidInput" /\ resp.tries = 0
    /\ \E g \in drugs : g.stock > 0
    /\ prescriptions # {}

\* C10: addPrescription(id, doctor_id) answers InvalidInput when a field is
\* missing, else DuplicateKey when the id exists, else InvalidReference when
\* the doctor does not exist, and changes nothing in these cases; otherwise
\* it succeeds and adds the prescription with total_fee 0.
C10_AddPrescription ==
    [][\A data \in PrescriptionBodies :
          (resp'.op = "add_prescription" /\ add_prescription(data, Healthy))
          => LET supplied == /\ "prescription_id" \in DOMAIN data /\ data.prescription_id # ""
                             /\ "doctor_id" \in DOMAIN data /\ data.doctor_id # ""
             IN IF ~supplied
                THEN resp'.kind = "InvalidInput" /\ UNCHANGED StoreVars
                ELSE IF PrescriptionExists(data.prescription_id)
                THEN resp'.kind = "DuplicateKey" /\ UNCHANGED StoreVars
                ELSE IF ~DoctorExists(data.doctor_id)
                THEN resp'.kind = "InvalidReference" /\ UNCHANGED StoreVars
                ELSE /\ resp'.kind = "ok"
                     /\ prescriptions' = prescriptions \cup
                           {[prescription_id |-> data.prescription_id,
                             doctor_id |-> data.doctor_id, total_fee |-> 0]}
                     /\ UNCHANGED <<drugs, doctors, prescription_details, next_detail_id>>
       ]_vars

\* A second prescription of the doctor was just created, with total_fee 0.
C10_Witness ==
    /\ resp.op = "add_prescription" /\ resp.kind = "ok"
    /\ Cardinality(prescriptions) = 2
    /\ \E p \in prescriptions : p.total_fee = 0 /\ DoctorExists(p.doctor_id)

RECURSIVE QuantityUpTo(_, _, _)
\* The quantities of the details of the drug numbered 1 .. n, taken row by row.
QuantityUpTo(tbl, name, n) ==
    IF n = 0 THEN 0
    ELSE LET rows == {r \in tbl : r.id = n /\ r.drug_name = name}
         IN QuantityUpTo(tbl, name, n - 1)
              + (IF rows = {} THEN 0 ELSE (CHOOSE r \in rows : TRUE).quantity)

Dispensed(name) == QuantityUpTo(prescription_details, name, next_detail_id - 1)

\* C2: with two addPrescriptionDetail requests against d1 interleaved, the
\* quantities of the details created never exceed the stock that was
\* available, and once no request is in flight the stock is the initial stock
\* minus the quantities of the details created.
C2_NoJointOverdraw ==
    /\ Dispensed("d1") <= InitialStock
    /\ InFlight = {} => StockOf(drugs, "d1") = InitialStock - Dispensed("d1")

\* Calls of the coordinator a client can cause in the current store.
CoordinatorRequests ==
    {Request("calculate", id, <<>>) : id \in PrescriptionIds}
        \cup {Request("delete_drug", name, <<>>) : name \in DrugNames}
        \cup {Request("insert_drug", data.drug_name, data) : data \in DrugBodies({1}, {MaxStock})}
        \cup {Request("update_drug", name, [stock |-> MaxStock]) : name \in DrugNames}
        \cup {Request("insert_detail", id, data) :
                  id \in PrescriptionIds, data \in {d \in DetailBodies : WellFormedDetail(d)}}

\* The call of req under net on the current store: the attempts before the
\* last one lost the connection; the last one either returned, and its result
\* and its store are the call's, or lost the connection as the third, and the
\* caller gets StorageUnavailable, or raised another error, which the call
\* raises.
RetryBound(req, net) ==
    LET r == execute_with_retry(req, DB, net, 0)
        n == r.tries
    IN /\ n \in 1 .. max_retries
       /\ \A i \in 1 .. (n - 1) : Attempt(req, DB, net[i]).exc = "LostConnection"
       /\ LET last == Attempt(req, DB, net[n])
          IN /\ r.exc = last.exc
             /\ CASE last.exc = "none" ->
                       r.kind = last.kind /\ r.num = last.num /\ r.db = last.db
                  [] last.exc = "LostConnection" ->
                       n = max_retries /\ Failure(r).kind = "StorageUnavailable" /\ r.db = DB
                  [] OTHER -> Failure(r).status = 500

\* C11: the coordinator runs the unit of work at most 3 times; it returns the
\* result of the first attempt that does not lose the connection and runs no
\* attempt after it; when all 3 attempts lose the connection it stops and the
\* caller gets StorageUnavailable; every call ends with a result or an error.
C11_BoundedRetry ==
    /\ resp.tries \in 0 .. max_retries
    /\ resp.kind = "StorageUnavailable" => resp.tries = max_retries
    /\ \A req \in CoordinatorRequests, net \in Nets : RetryBound(req, net)

\* Three attempts of a detail that could have been inserted lost the
\* connection: StorageUnavailable, and the store is as it was.
C11_Witness ==
    /\ resp.op = "add_prescription_detail"
    /\ resp.kind = "StorageUnavailable" /\ resp.tries = max_retries
    /\ prescriptions # {} /\ prescription_details = {}
    /\ DrugExists("d1") /\ StockOf(drugs, "d1") = MaxStock

\* The call of req under net on the current store, when attempt i is the
\* first that does not lose the connection and it raises another error: the
\* call ends with attempt i, raises that error, and the store is as it was.
NeverRetried(req, net) ==
    LET r == execute_with_retry(req, DB, net, 0)
    IN \A i \in 1 .. max_retries :
           (/\ \A j \in 1 .. (i - 1) : Attempt(req, DB, net[j]).exc = "LostConnection"
            /\ Attempt(req, DB, net[i]).exc \notin {"none", "LostConnection"})
           => /\ r.tries = i
              /\ r.exc = Attempt(req, DB, net[i]).exc
              /\ r.db = DB

\* C12: when the unit of work fails with an error that is not a lost
\* connection (the key exists already, another storage error), the coordinator
\* runs it no further: a unit that fails so at its first attempt has run
\* exactly once, the caller gets the failure, and the store is the store
\* before the call.
C12_NoRetryOnOtherFailure ==
    /\ [](\A req \in CoordinatorRequests, net \in Nets : NeverRetried(req, net))
    /\ [][resp'.kind \in {"InternalError", "DuplicateKey"}
            => resp'.status \in {400, 500} /\ UNCHANGED StoreVars]_vars

\* The update of a drug that has a detail failed at once with a storage error
\* that is not a lost connection; the drug and the detail are as they were.
C12_Witness ==
    /\ resp.op = "update_drug" /\ resp.kind = "InternalError" /\ resp.tries = 1
    /\ DrugExists("d1") /\ StockOf(drugs, "d1") = MaxStock - 1
    /\ Cardinality(prescription_details) = 1

\* C13: the price of a detail is the price its drug had when the detail was
\* inserted, and no later step changes it: updateDrug leaves every detail, and
\* with it the sum calculatePrescriptionTotal computes, as it was, and
\* calculatePrescriptionTotal returns the sum at the prices of the details.
C13_PriceSnapshot ==
    [][/\ \A q \in prescription_details' \ prescription_details :
             \/ \E r \in prescription_details : r.id = q.id
             \/ \E g \in drugs : g.drug_name = q.drug_name /\ q.price = g.price
       /\ \A r \in prescription_details, q \in prescription_details' :
             q.id = r.id => q.price = r.price
       /\ resp'.op = "update_drug"
             => /\ prescription_details' = prescription_details
                /\ \A id \in PrescriptionIds :
                      FeeUpTo(prescription_details', id, next_detail_id' - 1) = ExpectedTotal(id)
       /\ \A id \in PrescriptionIds :
             (/\ resp'.op = "calculate_prescription"
              /\ calculate_prescription(id, Healthy)
              /\ PrescriptionExists(id))
             => resp'.num = ExpectedTotal(id)
       ]_vars

\* The price of the drug was just changed, and a detail keeps the old one.
C13_Witness ==
    /\ resp.op = "update_drug" /\ resp.kind = "ok"
    /\ \E r \in prescription_details, g \in drugs :
          r.drug_name = g.drug_name /\ r.price # g.price

\* C14: the stored total_fee of a prescription changes only in
\* calculatePrescriptionTotal of that prescription; addPrescriptionDetail,
\* updateDrug and deleteDrug leave every prescription as it was, so after a
\* detail is added the stored total_fee may differ from the sum over the
\* details.
C14_NoImplicitRecompute ==
    [][/\ \A p \in prescriptions, q \in prescriptions' :
             (p.prescription_id = q.prescription_id /\ p.total_fee # q.total_fee)
             => /\ resp'.op = "calculate_prescription"
                /\ calculate_prescription(p.prescription_id, Healthy)
       /\ resp'.op \in {"add_prescription_detail", "update_drug", "delete_drug"}
             => prescriptions' = prescriptions
       ]_vars

\* A detail was just added to a prescription whose total_fee was calculated
\* before: the stored total_fee is no longer the sum over its details.
C14_Witness ==
    /\ resp.op = "add_prescription_detail" /\ resp.kind = "ok"
    /\ \E p \in prescriptions :
          /\ p.total_fee > 0
          /\ p.total_fee # ExpectedTotal(p.prescription_id)
          /\ \E r \in prescription_details :
                r.id = resp.num /\ r.prescription_id = p.prescription_id

\* C15: addDrug(name, price, stock) on a store without the name stores
\* exactly that row, and getDrug(name) returns the stored row, price and stock
\* as given; addDrug of a name that exists answers DuplicateKey and leaves
\* the row as it was.
C15_AddThenGet ==
    [][/\ \A data \in DrugBodies(Prices, Stocks) :
             (resp'.op = "add_drug" /\ add_drug(data, Healthy))
             => IF DrugExists(data.drug_name)
                THEN resp'.kind = "DuplicateKey" /\ UNCHANGED StoreVars
                ELSE /\ resp'.kind = "ok"
                     /\ drugs' = drugs \cup {[drug_name |-> data.drug_name,
                                               price |-> data.price, stock |-> data.stock]}
                     /\ UNCHANGED <<doctors, prescriptions, prescription_details, next_detail_id>>
       /\ \A name \in DrugNames :
             (resp'.op = "get_drug" /\ get_drug(name, Healthy))
             => /\ UNCHANGED StoreVars
                /\ IF DrugExists(name)
                   THEN resp'.kind = "ok" /\ resp'.rows = {g \in drugs : g.drug_name = name}
                   ELSE resp'.kind = "NotFound" /\ resp'.rows = {}
       ]_vars

\* getDrug returned the row of a drug added with price 2 and stock MaxStock.
C15_Witness ==
    /\ resp.op = "get_drug" /\ resp.kind = "ok"
    /\ resp.rows = {[drug_name |-> "d1", price |-> 2, stock |-> MaxStock]}
    /\ resp.rows = drugs

\* C16: updateDrug changes, in the row of the drug named, the fields the
\* request supplies and no other: the price only, the stock only, both, or
\* none; the name and every other row stay; on a name that does not exist it
\* answers NotFound and creates no drug.
C16_PartialUpdate ==
    /\ [](\A name \in DrugNames, data \in DrugUpdates(Prices, Stocks) :
            LET r == execute_with_retry(Request("update_drug", name, data), DB, HealthyNet, 0)
            IN IF ~DrugExists(name)
               THEN r.kind = "NotFound" /\ r.db = DB
               ELSE /\ r.kind = "ok"
                    /\ r.db.drugs =
                          {IF g.drug_name = name
                           THEN [drug_name |-> g.drug_name,
                                 price |-> IF "price" \in DOMAIN data THEN data.price ELSE g.price,
                                 stock |-> IF "stock" \in DOMAIN data THEN data.stock ELSE g.stock]
                           ELSE g : g \in drugs}
                    /\ r.db = [DB EXCEPT !.drugs = r.db.drugs])
    /\ [][resp'.op = "update_drug"
            => /\ UNCHANGED <<doctors, prescriptions, prescription_details, next_detail_id>>
               /\ {g.drug_name : g \in drugs'} = {g.drug_name : g \in drugs}
               /\ resp'.kind \in {"ok", "NotFound"}
               /\ resp'.kind = "NotFound" => drugs' = drugs]_vars

\* An update left the drug with a price no addDrug and a stock no request
\* supplied together: price 2 with the stock 1 a detail left.
C16_Witness ==
    /\ resp.op = "update_drug" /\ resp.kind = "ok"
    /\ drugs = {[drug_name |-> "d1", price |-> 2, stock |-> 1]}
    /\ \E r \in prescription_details : r.price = 1 /\ r.quantity = MaxStock - 1

\* C18: in every state the requests reach one after another, every detail
\* names an existing prescription and an existing drug, and every
\* prescription names an existing doctor.
C18_ReferentialIntegrity ==
    /\ \A r \in prescription_details :
          PrescriptionExists(r.prescription_id) /\ DrugExists(r.drug_name)
    /\ \A p \in prescriptions : DoctorExists(p.doctor_id)

\* Both prescriptions have a detail, and the doctor was just renamed.
C18_Witness ==
    /\ resp.op = "update_doctor" /\ resp.kind = "ok"
    /\ \E r \in doctors : r.doctor_name \in NewDoctorNames
    /\ \A id \in PrescriptionIds : \E r \in prescription_details : r.prescription_id = id

\* C19: deletePrescription changes no drug: the stock its details took stays
\* taken.
C19_NoRestock ==
    [][\A id \in PrescriptionIds :
          (resp'.op = "delete_prescription" /\ delete_prescription(id, Healthy))
          => /\ drugs' = drugs
             /\ \A r \in prescription_details \ prescription_details' :
                   /\ r.prescription_id = id
                   /\ DrugExists(r.drug_name)'
                   /\ StockOf(drugs', r.drug_name) = StockOf(drugs, r.drug_name)
       ]_vars

\* The prescription was deleted with its one detail of quantity MaxStock, and
\* the stock of the drug is still 0.
C19_Witness ==
    /\ resp.op = "delete_prescription" /\ resp.kind = "ok"
    /\ prescription_details = {} /\ next_detail_id = 2
    /\ DrugExists("d1") /\ StockOf(drugs, "d1") = 0

\* C17: with a deletion and an insertion served at the same time, their
\* checks and writes interleaved, no state holds a detail whose drug or
\* prescription is missing, or a prescription whose doctor is missing.
C17_NoDanglingUnderRace ==
    /\ \A r \in prescription_details :
          /\ \E p \in prescriptions : p.prescription_id = r.prescription_id
          /\ \E g \in drugs : g.drug_name = r.drug_name
    /\ \A p \in prescriptions : \E x \in doctors : x.doctor_id = p.doctor_id

\* An insertion passed its checks, the row it names was deleted meanwhile,
\* and its commit was refused: the drug or the prescription or the doctor is
\* gone and nothing references it.
C17_Witness ==
    /\ InFlight = {}
    /\ \E w \in Workers : sess[w].kind = "IntegrityError"
    /\ \E w \in Workers : sess[w].kind = "ok"
    /\ drugs = {} \/ doctors = {} \/ prescriptions = {}

====
